---- MODULE Spec2Model ----
(***************************************************************************)
(* The search-and-result data flow of the wow-odds frontend.               *)
(*                                                                         *)
(* The repository holds two search forms:                                  *)
(*   - components/SearchPage/index.tsx, the form that app/page.tsx (Home,  *)
(*     kept at the end of components/layout/MetricsLayout.tsx) composes    *)
(*     with MetricsLayout; Home owns searchResults, isLoading and error,   *)
(*     the form owns localLoading and localError;                          *)
(*   - components/SearchPage.tsx, a standalone page that owns loading,     *)
(*     error and searchResults itself.                                     *)
(* A behaviour mounts one of the two (variable page).  The state slots     *)
(* that carry the same name in both sources (error, searchResults and the  *)
(* five form fields) share one variable; the slot belongs to the mounted   *)
(* page.                                                                   *)
(*                                                                         *)
(* Strings typed by the user are sequences of one-character strings, so    *)
(* that toLowerCase and encodeURIComponent are computed character by       *)
(* character; every other string is a TLA+ string.                         *)
(*                                                                         *)
(* React 18 batches the state updates of one event handler and of one      *)
(* continuation after an await, so the synchronous part of handleSearch    *)
(* and its continuation after the fetch settles are one action each.       *)
(*                                                                         *)
(* A submit event reaches handleSearch only while the submit button is    *)
(* enabled (disabled={localLoading}, disabled={loading}).  The required    *)
(* attribute of the inputs of index.tsx is not modelled: handleSearch      *)
(* repeats the check itself, and the event arrives with empty fields where *)
(* constraint validation is off.  The names typed are well-formed strings, *)
(* on which encodeURIComponent does not throw.                             *)
(***************************************************************************)
EXTENDS Integers, Naturals, Sequences, FiniteSets, TLC

\* The number of searches one behaviour may issue.
MaxSearches == 2

(***************************************************************************)
(* Values                                                                  *)
(***************************************************************************)

\* What the user may type in the name field.
Thrall == <<"T", "h", "r", "a", "l", "l">>
AcDc == <<"A", "C", "/", "D", " ", "c">>
NameInputs == {<<>>, Thrall, AcDc}

\* What the user may type in the server field.
Stormrage == <<"S", "t", "o", "r", "m", "r", "a", "g", "e">>
ServerInputs == {<<>>, Stormrage}

\* The options of the region select.
Regions == {"us", "eu", "kr", "tw"}

\* The options of the version select.
Versions == {"Retail", "Cata", "ClassicFresh", "SoD", "Classic"}

SearchTypes == {"player", "guild"}

\* JavaScript null, which is also what JSON null parses to.
Null == [type |-> "null"]

\* Parsed JSON objects: detail and character are <<>> when the field is
\* absent and <<v>> when it is present with value v.
SearchData == [type |-> "object", detail |-> <<>>, character |-> <<"Thrall">>]
DetailBody == [type |-> "object", detail |-> <<"Character not found">>, character |-> <<>>]
EmptyDetailBody == [type |-> "object", detail |-> <<"">>, character |-> <<>>]

JsonValues == {Null, SearchData, DetailBody, EmptyDetailBody}

\* A response body that is not JSON (an HTML error page of a proxy).
NotJson == [type |-> "invalid"]

\* What the platform throws: [isError |-> err instanceof Error, message].
SyntaxError == [isError |-> TRUE, message |-> "Unexpected token < in JSON at position 0"]
DetailOfNull == [isError |-> TRUE, message |-> "Cannot read properties of null (reading 'detail')"]
FailedToFetch == [isError |-> TRUE, message |-> "Failed to fetch"]
NotAnError == [isError |-> FALSE, message |-> ""]
Rejections == {FailedToFetch, NotAnError}

\* How a pending fetch may settle: it rejects, or it resolves to a response
\* with response.ok and a body.
Outcomes ==
  [kind : {"rejected"}, ok : {FALSE}, body : {Null}, reason : Rejections]
    \cup [kind : {"response"}, ok : BOOLEAN, body : JsonValues \cup {NotJson},
          reason : {NotAnError}]

(***************************************************************************)
(* String functions                                                        *)
(***************************************************************************)

\* String.prototype.toLowerCase on one character.
LowerChar(c) ==
  CASE c = "A" -> "a"
    [] c = "C" -> "c"
    [] c = "D" -> "d"
    [] c = "S" -> "s"
    [] c = "T" -> "t"
    [] OTHER -> c

\* encodeURIComponent on one character: letters, digits and - _ . ! ~ * ' ( )
\* are kept, every other character becomes %XX.
EncodeChar(c) ==
  CASE c = " " -> "%20"
    [] c = "/" -> "%2F"
    [] OTHER -> c

RECURSIVE toLowerCase(_)
toLowerCase(s) ==
  IF s = <<>> THEN <<>> ELSE <<LowerChar(Head(s))>> \o toLowerCase(Tail(s))

RECURSIVE encodeURIComponent(_)
encodeURIComponent(s) ==
  IF s = <<>> THEN "" ELSE EncodeChar(Head(s)) \o encodeURIComponent(Tail(s))

\* The text of a character sequence, as a template literal interpolates it.
RECURSIVE Text(_)
Text(s) == IF s = <<>> THEN "" ELSE Head(s) \o Text(Tail(s))

(***************************************************************************)
(* State                                                                   *)
(***************************************************************************)

\* No metric display is mounted, nothing was formatted.
NoMetric == [kind |-> "none"]
NotRendered == [by |-> "none"]

\* The props of a MetricsLayout that has no data, is not loading and has
\* no error.
NoProps == [data |-> Null, isLoading |-> FALSE, error |-> ""]

VARIABLES
  page,           \* "Home": app/page.tsx with SearchPage/index.tsx;
                  \* "SearchPage": the standalone components/SearchPage.tsx
  searchType, characterName, serverName, region, version,    \* the form
  localLoading, localError,      \* SearchPage/index.tsx
  loading,                       \* SearchPage.tsx
  isLoading,                     \* Home
  error, searchResults,          \* Home, or SearchPage.tsx
  requests,       \* the fetches that have not settled, oldest first
  fetchCount,     \* the number of fetch calls issued so far
  submitCount,    \* the number of submits that passed the validation
  uncaught,       \* an exception has left handleSearch
  metric,         \* the props of the metric display being rendered
  props,          \* the props of the MetricsLayout or PlayerMetricsDisplay
                  \* being rendered
  rendered        \* what the last formatter call returned

form == <<searchType, characterName, serverName, region, version>>
flags == <<localLoading, loading, isLoading>>
display == <<metric, props, rendered>>
vars == <<page, form, flags, localError, error, searchResults, requests,
          fetchCount, submitCount, uncaught, display>>

Init ==
  /\ page \in {"Home", "SearchPage"}
  /\ searchType = "player"
  /\ characterName = <<>>
  /\ serverName = <<>>
  /\ region = "us"
  /\ version = "SoD"
  /\ localLoading = FALSE
  /\ localError = ""
  /\ loading = FALSE
  /\ isLoading = FALSE
  /\ error = ""
  /\ searchResults = Null
  /\ requests = <<>>
  /\ fetchCount = 0
  /\ submitCount = 0
  /\ uncaught = FALSE
  /\ metric = NoMetric
  /\ props = NoProps
  /\ rendered = NotRendered

(***************************************************************************)
(* The form fields                                                         *)
(***************************************************************************)

\* A mode toggle that also drops the result on display.
setSearchTypeClearsResult(t) ==
  /\ searchType' = t
  /\ searchResults' = Null
  /\ UNCHANGED <<display, page, characterName, serverName, region, version, flags,
                 localError, error, requests, fetchCount, submitCount, uncaught>>

setSearchType(t) ==
  /\ searchType' = t
  /\ UNCHANGED <<display, page, characterName, serverName, region, version, flags,
                 localError, error, searchResults, requests, fetchCount, submitCount,
                 uncaught>>

\* A name field that dismisses the validation message when edited.
setCharacterNameClearsError(v) ==
  /\ characterName' = v
  /\ localError' = ""
  /\ UNCHANGED <<display, page, searchType, serverName, region, version, flags,
                 error, searchResults, requests, fetchCount, submitCount,
                 uncaught>>

setCharacterName(v) ==
  /\ characterName' = v
  /\ UNCHANGED <<display, page, searchType, serverName, region, version, flags,
                 localError, error, searchResults, requests, fetchCount, submitCount,
                 uncaught>>

setServerName(v) ==
  /\ serverName' = v
  /\ UNCHANGED <<display, page, searchType, characterName, region, version, flags,
                 localError, error, searchResults, requests, fetchCount, submitCount,
                 uncaught>>

\* A region select that redirects the request in flight.
setRegionRedirectsPending(r) ==
  /\ region' = r
  /\ requests' = [i \in DOMAIN requests |-> [url |-> "/api/v1/" \o r]]
  /\ UNCHANGED <<display, page, searchType, characterName, serverName, version, flags,
                 localError, error, searchResults, fetchCount, submitCount,
                 uncaught>>

setRegion(r) ==
  /\ region' = r
  /\ UNCHANGED <<display, page, searchType, characterName, serverName, version, flags,
                 localError, error, searchResults, requests, fetchCount, submitCount,
                 uncaught>>

\* The version select is rendered in player mode only.
setVersion(v) ==
  /\ searchType = "player"
  /\ version' = v
  /\ UNCHANGED <<display, page, searchType, characterName, serverName, region, flags,
                 localError, error, searchResults, requests, fetchCount, submitCount,
                 uncaught>>

(***************************************************************************)
(* SearchPage/index.tsx with Home                                          *)
(***************************************************************************)

\* A fetch that is issued twice.
fetchTwice(url) ==
  /\ requests' = Append(Append(requests, [url |-> url]), [url |-> url])
  /\ fetchCount' = fetchCount + 2

\* fetch(url): one more request is pending.
fetch(url) ==
  /\ requests' = Append(requests, [url |-> url])
  /\ fetchCount' = fetchCount + 1

\* A form whose submit control is never disabled.
NeverDisabled == FALSE

\* The submit button is disabled while localLoading; a disabled default
\* button also blocks implicit submission (Enter in a text field).
SubmitDisabled == localLoading

\* A check of the name alone.
NameMissingOnly == characterName = <<>>

\* if (!characterName || !serverName)
FieldsMissing == characterName = <<>> \/ serverName = <<>>

\* The url of the request built from the form as it is at the submit.
\* A url that carries the version in guild mode too.
RequestUrlWithVersion ==
  "/api/v1/" \o searchType \o "/" \o region \o "/"
    \o encodeURIComponent(toLowerCase(serverName)) \o "/"
    \o encodeURIComponent(toLowerCase(characterName))
    \o "?version=" \o version

\* The url handleSearch builds from the form.
RequestUrl ==
  IF searchType = "player"
  THEN "/api/v1/player/" \o region \o "/"
         \o encodeURIComponent(toLowerCase(serverName)) \o "/"
         \o encodeURIComponent(toLowerCase(characterName))
         \o "?version=" \o version
  ELSE "/api/v1/guild/" \o region \o "/"
         \o encodeURIComponent(toLowerCase(serverName)) \o "/"
         \o encodeURIComponent(toLowerCase(characterName))

\* A start that sets the flag of the form alone.
StartLocalOnly == isLoading' = isLoading /\ localLoading' = TRUE

\* setLoading(true); setLocalLoading(true)
StartLoading == isLoading' = TRUE /\ localLoading' = TRUE

\* A handleSearch that leaves the error of the page as it is.
handleSearchKeepsError ==
  /\ page = "Home"
  /\ ~SubmitDisabled
  /\ IF FieldsMissing
     THEN /\ localError' = "Please fill in all required fields"
          /\ UNCHANGED <<error, isLoading, localLoading, requests, fetchCount,
                         submitCount>>
     ELSE /\ fetchCount < MaxSearches
          /\ localError' = ""
          /\ error' = error
          /\ StartLoading
          /\ fetch(RequestUrl)
          /\ submitCount' = submitCount + 1
  /\ UNCHANGED <<display, page, form, loading, searchResults, uncaught>>

\* The synchronous part of handleSearch, up to the fetch call.
handleSearch ==
  /\ page = "Home"
  /\ ~SubmitDisabled
  /\ IF FieldsMissing
     THEN /\ localError' = "Please fill in all required fields"
          /\ UNCHANGED <<error, isLoading, localLoading, requests, fetchCount,
                         submitCount>>
     ELSE /\ fetchCount < MaxSearches
          /\ localError' = ""
          /\ error' = ""
          /\ StartLoading
          /\ fetch(RequestUrl)
          /\ submitCount' = submitCount + 1
  /\ UNCHANGED <<display, page, form, loading, searchResults, uncaught>>

\* A handler that ignores the detail field.
AlwaysDefault(data) == "Failed to fetch data"

\* data.detail || 'Failed to fetch data'
DetailOrDefault(data) ==
  IF data.detail # <<>> /\ data.detail[1] # ""
  THEN data.detail[1]
  ELSE "Failed to fetch data"

\* What the try block throws when the fetch settles as o: <<>> when it
\* throws nothing, <<err>> otherwise.
Thrown(o) ==
  IF o.kind = "rejected" THEN <<o.reason>>
  ELSE IF o.body = NotJson THEN <<SyntaxError>>
  ELSE IF o.ok THEN <<>>
  ELSE IF o.body = Null THEN <<DetailOfNull>>
  ELSE <<[isError |-> TRUE, message |-> DetailOrDefault(o.body)]>>

\* err instanceof Error ? err.message : 'Unknown error occurred'
CatchMessage(err) ==
  IF err.isError THEN err.message ELSE "Unknown error occurred"

\* A callback that drops a body without a character field.
ValidatedComplete(data) ==
  IF data # Null /\ data.character = <<>> THEN Null ELSE data

\* A callback that keeps the character of the result it replaces.
MergedComplete(data) ==
  IF data # Null /\ searchResults # Null
  THEN [data EXCEPT !.character = searchResults.character]
  ELSE data

\* Home's handleSearchComplete: setSearchResults(data).
handleSearchComplete(data) == data

\* A handler without the catch block.
UncaughtError(err) == uncaught' = TRUE /\ UNCHANGED <<error, searchResults>>

\* A catch block that reports the error and keeps the result.
CatchKeepsResult(err) ==
  /\ error' = CatchMessage(err)
  /\ UNCHANGED <<searchResults, uncaught>>

\* The catch block.
Catch(err) ==
  /\ error' = CatchMessage(err)
  /\ searchResults' = handleSearchComplete(Null)
  /\ uncaught' = uncaught

\* A finally block that releases the flag of the form alone.
FinallyLocalOnly == isLoading' = isLoading /\ localLoading' = FALSE

\* The finally block.
Finally == isLoading' = FALSE /\ localLoading' = FALSE

RemoveAt(q, i) == SubSeq(q, 1, i - 1) \o SubSeq(q, i + 1, Len(q))

\* The rest of handleSearch, run when the i-th pending fetch settles as o.
handleSearchSettled(i, o) ==
  /\ page = "Home"
  /\ i \in 1..Len(requests)
  /\ requests' = RemoveAt(requests, i)
  /\ IF Thrown(o) = <<>>
     THEN /\ searchResults' = handleSearchComplete(o.body)
          /\ UNCHANGED <<error, uncaught>>
     ELSE Catch(Thrown(o)[1])
  /\ Finally
  /\ UNCHANGED <<display, page, form, loading, localError, fetchCount, submitCount>>

(***************************************************************************)
(* The standalone SearchPage.tsx                                           *)
(***************************************************************************)

\* A submit button of SearchPage.tsx that is never disabled.
SP_NeverDisabled == FALSE

SP_SubmitDisabled == loading

SP_FieldsMissing == characterName = <<>> \/ serverName = <<>>

\* The url: lower-cased, not encoded.
SP_RequestUrl ==
  IF searchType = "player"
  THEN "/api/v1/player/" \o region \o "/" \o Text(toLowerCase(serverName))
         \o "/" \o Text(toLowerCase(characterName)) \o "?version=" \o version
  ELSE "/api/v1/guild/" \o region \o "/" \o Text(toLowerCase(serverName))
         \o "/" \o Text(toLowerCase(characterName))

SP_handleSearch ==
  /\ page = "SearchPage"
  /\ ~SP_SubmitDisabled
  /\ IF SP_FieldsMissing
     THEN /\ error' = "Please enter both name and server"
          /\ searchResults' = Null
          /\ UNCHANGED <<loading, requests, fetchCount, submitCount>>
     ELSE /\ fetchCount < MaxSearches
          /\ error' = ""
          /\ searchResults' = Null
          /\ loading' = TRUE
          /\ fetch(SP_RequestUrl)
          /\ submitCount' = submitCount + 1
  /\ UNCHANGED <<display, page, form, localLoading, isLoading, localError, uncaught>>

SP_Thrown(o) ==
  IF o.kind = "rejected" THEN <<o.reason>>
  ELSE IF ~o.ok
       THEN IF o.body = NotJson THEN <<SyntaxError>>
            ELSE IF o.body = Null THEN <<DetailOfNull>>
            ELSE <<[isError |-> TRUE, message |-> DetailOrDefault(o.body)]>>
  ELSE IF o.body = NotJson THEN <<SyntaxError>>
  ELSE <<>>

\* err instanceof Error ? err.message : 'Error fetching data'
SP_CatchMessage(err) ==
  IF err.isError THEN err.message ELSE "Error fetching data"

SP_Catch(err) ==
  /\ error' = SP_CatchMessage(err)
  /\ UNCHANGED <<searchResults, uncaught>>

SP_Finally == loading' = FALSE

SP_handleSearchSettled(i, o) ==
  /\ page = "SearchPage"
  /\ i \in 1..Len(requests)
  /\ requests' = RemoveAt(requests, i)
  /\ IF SP_Thrown(o) = <<>>
     THEN /\ searchResults' = o.body
          /\ UNCHANGED <<error, uncaught>>
     ELSE SP_Catch(SP_Thrown(o)[1])
  /\ SP_Finally
  /\ UNCHANGED <<display, page, form, localLoading, isLoading, localError, fetchCount, submitCount>>

(***************************************************************************)
(* Rendering                                                               *)
(***************************************************************************)

\* The view MetricsLayout returns.
\* A MetricsLayout that looks at the error before the loading flag.
MetricsLayoutErrorFirst(data, loadingProp, errorProp) ==
  IF errorProp # "" THEN "error"
  ELSE IF loadingProp THEN "spinner"
  ELSE IF data = Null THEN "nothing"
  ELSE "data"

MetricsLayout(data, loadingProp, errorProp) ==
  IF loadingProp THEN "spinner"
  ELSE IF errorProp # "" THEN "error"
  ELSE IF data = Null THEN "nothing"
  ELSE "data"

\* Home: {searchResults && <p>Results found for: ...</p>}
ResultsLineShown == page = "Home" /\ searchResults # Null

\* Home: {searchResults && <MetricsLayout .../>}, showing the data view.
DataViewShown ==
  /\ page = "Home"
  /\ searchResults # Null
  /\ MetricsLayout(searchResults, isLoading, error) = "data"

(***************************************************************************)
(* The metric displays                                                     *)
(*                                                                         *)
(* A JavaScript number is the fraction n/d: a finite number has d > 0,     *)
(* NaN is 0/0 and an infinity is n/0.  Odds are integers.                  *)
(***************************************************************************)

\* The largest magnitude of an odds figure.
MaxOdds == 2

\* The largest number of fights of a report.
MaxFights == 2

Frac(n, d) == [n |-> n, d |-> d]

\* x * k and x / k for a positive integer k, and x / y for y >= 0.
Times(x, k) == Frac(x.n * k, x.d)
Over(x, k) == Frac(x.n, x.d * k)
Quot(x, y) == Frac(x.n * y.d, x.d * y.n)

\* x >= k and x < k for a finite integer k; both are false of NaN.
AtLeast(x, k) == IF x.d = 0 THEN x.n > 0 ELSE x.n >= k * x.d
LessThan(x, k) == IF x.d = 0 THEN x.n < 0 ELSE x.n < k * x.d

Abs(i) == IF i < 0 THEN -i ELSE i

\* The decimal text of q / 10^k with k digits after the point.
Digits(q, k) ==
  CASE k = 0 -> ToString(q)
    [] k = 1 -> ToString(q \div 10) \o "." \o ToString(q % 10)
    [] k = 2 -> ToString(q \div 100) \o "." \o ToString((q % 100) \div 10)
                  \o ToString(q % 10)

\* The largest odd divisor of d > 0.
RECURSIVE OddPart(_)
OddPart(d) == IF d % 2 = 0 THEN OddPart(d \div 2) ELSE d

\* x is a binary fraction, so that the double holds it exactly.
Dyadic(x) == x.n % OddPart(x.d) = 0

\* Number.prototype.toFixed(k), as the set of texts it may return: the
\* nearest k-digit decimal; a value exactly half way goes up when the
\* double holds it exactly and either way when the double is only near it.
toFixed(x, k) ==
  IF x.d = 0
  THEN {IF x.n = 0 THEN "NaN" ELSE IF x.n > 0 THEN "Infinity" ELSE "-Infinity"}
  ELSE LET a == Abs(x.n) * 10^k
           q == a \div x.d
           r == a % x.d
           sign == IF x.n < 0 THEN "-" ELSE ""
           qs == IF 2 * r < x.d THEN {q}
                 ELSE IF 2 * r > x.d THEN {q + 1}
                 ELSE IF Dyadic(x) THEN {q + 1}
                 ELSE {q, q + 1}
       IN {sign \o Digits(t, k) : t \in qs}

\* `+${x}` and {x} for an integer x.
Plus(x) == "+" \o ToString(x)

\* AvoidableDamageDisplay.formatOdds with >= for >.
AD_formatOddsFromZero(odds) ==
  [over |-> IF odds[1] >= 0 THEN Plus(odds[1]) ELSE ToString(odds[1]),
   under |-> IF odds[2] >= 0 THEN Plus(odds[2]) ELSE ToString(odds[2])]

\* AvoidableDamageDisplay.formatOdds
AD_formatOdds(odds) ==
  [over |-> IF odds[1] > 0 THEN Plus(odds[1]) ELSE ToString(odds[1]),
   under |-> IF odds[2] > 0 THEN Plus(odds[2]) ELSE ToString(odds[2])]

\* PerformanceDisplay.formatOdds
PF_formatOdds(odds) ==
  [over |-> IF odds[1] > 0 THEN Plus(odds[1]) ELSE ToString(odds[1]),
   under |-> IF odds[2] > 0 THEN Plus(odds[2]) ELSE ToString(odds[2])]

\* DeathMetricsDisplay.formatOdds
DM_formatOdds(odds) ==
  [over |-> IF odds[1] > 0 THEN Plus(odds[1]) ELSE ToString(odds[1]),
   under |-> IF odds[2] > 0 THEN Plus(odds[2]) ELSE ToString(odds[2])]

\* PlayerMetricsDisplay.formatOdds
PM_formatOdds(odds) ==
  [over |-> IF odds[1] > 0 THEN Plus(odds[1]) ELSE ToString(odds[1]),
   under |-> IF odds[2] > 0 THEN Plus(odds[2]) ELSE ToString(odds[2])]

\* AvoidableDamageDisplay.formatNumber with > 1000 for >= 1000.
formatNumberAboveThousand(num) ==
  IF AtLeast(num, 1000000)
  THEN {t \o "M" : t \in toFixed(Over(num, 1000000), 1)}
  ELSE IF AtLeast(num, 1000) /\ ~(num.n = 1000 * num.d)
  THEN {t \o "K" : t \in toFixed(Over(num, 1000), 1)}
  ELSE toFixed(num, 0)

\* AvoidableDamageDisplay.formatNumber
formatNumber(num) ==
  IF AtLeast(num, 1000000)
  THEN {t \o "M" : t \in toFixed(Over(num, 1000000), 1)}
  ELSE IF AtLeast(num, 1000)
  THEN {t \o "K" : t \in toFixed(Over(num, 1000), 1)}
  ELSE toFixed(num, 0)

\* PerformanceDisplay.formatPercentage
formatPercentage(value) == {t \o "%" : t \in toFixed(Times(value, 100), 1)}

\* DeathMetricsDisplay.formatValue
formatValue(value) ==
  IF LessThan(value, 1)
  THEN {t \o "%" : t \in toFixed(Times(value, 100), 1)}
  ELSE toFixed(value, 2)

\* MetricsLayout: ((report.kills / report.total_fights) * 100).toFixed(1) %
successRate(report) ==
  {t \o "%" : t \in toFixed(Times(Quot(Frac(report.kills, 1),
                                       Frac(report.total_fights, 1)), 100), 1)}

\* The values, odds pairs and reports a payload may carry.
ValueInputs ==
  {Frac(0, 1), Frac(1, 1), Frac(1, 2), Frac(123, 1000), Frac(5, 1),
   Frac(999, 1), Frac(9995, 10), Frac(1000, 1), Frac(1050, 1), Frac(1234, 1),
   Frac(999950, 1), Frac(1000000, 1), Frac(1250000, 1), Frac(2040000, 1),
   Frac(-1500, 1)}
OddsInputs == (-MaxOdds..MaxOdds) \X (-MaxOdds..MaxOdds)
ReportInputs ==
  {[kills |-> k, total_fights |-> f] : k \in 0..MaxFights, f \in 0..MaxFights}
    \ {r \in [kills : 0..MaxFights, total_fights : 0..MaxFights] :
         r.kills > r.total_fights}
MetricInputs == [value : ValueInputs, odds : OddsInputs, report : ReportInputs]

\* The state of the search page, which no metric display touches.
pageState == <<page, form, flags, localError, error, searchResults, requests,
               fetchCount, submitCount, uncaught>>

\* One card of a display: the value text and the two odds texts.
Card(by, value, odds) ==
  /\ rendered' = [by |-> by, value |-> value, over |-> odds.over,
                  under |-> odds.under]
  /\ UNCHANGED <<pageState, metric, props>>

\* AvoidableDamageDisplay.renderDamageMetric
AD_renderDamageMetric ==
  \E v \in formatNumber(metric.value) :
    Card("AvoidableDamageDisplay", v, AD_formatOdds(metric.odds))

\* PerformanceDisplay.renderMetricCard
PF_renderMetricCard ==
  \E v \in formatPercentage(metric.value) :
    Card("PerformanceDisplay", v, PF_formatOdds(metric.odds))

\* DeathMetricsDisplay.renderMetricCard
DM_renderMetricCard ==
  \E v \in formatValue(metric.value) :
    Card("DeathMetricsDisplay", v, DM_formatOdds(metric.odds))

\* PlayerMetricsDisplay.renderOddsSection
PM_renderOddsSection ==
  \E o \in {PM_formatOdds(metric.odds)} : Card("PlayerMetricsDisplay", "", o)

\* MetricsLayout: one row of the recent reports.
ML_renderReport ==
  \E v \in successRate(metric.report) :
    Card("MetricsLayout", v, [over |-> "", under |-> ""])

\* MetricsLayout: the view it returns for its props.
ML_render ==
  \E view \in {MetricsLayout(props.data, props.isLoading, props.error)} :
    Card("MetricsLayout.view", view, [over |-> "", under |-> ""])

\* The objects of a metrics payload are named by their paths below
\* data.metrics; a payload is the set of the paths that are present, closed
\* under prefixes, and the odds pair its leaves carry.
Prefixes(path) == {SubSeq(path, 1, k) : k \in 2..Len(path)}

\* The odds pairs the sibling displays declare in DeathMetrics, DamageMetrics
\* and PerformanceMetrics, and the two PlayerMetricsDisplay reads besides.
TypedLeaves ==
  {<<"death_analysis", "overall_deaths", "total_deaths", "odds">>,
   <<"death_analysis", "death_timing", "early_death_rate", "odds">>,
   <<"avoidable_damage", "mechanic_execution", "mechanic_failure_rate", "odds">>,
   <<"avoidable_damage", "overall_avoidance", "avoidance_rate", "odds">>,
   <<"performance", "fight_execution", "mechanic_success", "odds">>,
   <<"performance", "fight_execution", "cooldown_usage", "odds">>}
UntypedLeaves ==
  {<<"death_analysis", "overall_deaths", "odds">>,
   <<"performance", "cooldown_usage", "odds">>}

Payload(leaves, odds) ==
  [type |-> "object", present |-> UNION {Prefixes(l) : l \in leaves},
   odds |-> odds]

\* The payload the declared types describe.
TypedPayload(odds) == Payload(TypedLeaves, odds)

PayloadInputs ==
  {Payload(leaves, odds) :
     leaves \in SUBSET (TypedLeaves \cup UntypedLeaves), odds \in OddsInputs}

\* The six sections of PlayerMetricsDisplay: the object its guard tests and
\* the odds pair it passes to renderOddsSection.
Sections ==
  <<[title |-> "Total Deaths",
     guard |-> <<"death_analysis", "overall_deaths">>,
     odds |-> <<"death_analysis", "overall_deaths", "odds">>],
    [title |-> "Early Deaths",
     guard |-> <<"death_analysis", "death_timing">>,
     odds |-> <<"death_analysis", "death_timing", "early_death_rate", "odds">>],
    [title |-> "Mechanic Failures",
     guard |-> <<"avoidable_damage", "mechanic_execution">>,
     odds |-> <<"avoidable_damage", "mechanic_execution",
                "mechanic_failure_rate", "odds">>],
    [title |-> "Damage Avoidance",
     guard |-> <<"avoidable_damage", "overall_avoidance">>,
     odds |-> <<"avoidable_damage", "overall_avoidance", "avoidance_rate",
                "odds">>],
    [title |-> "Mechanic Success",
     guard |-> <<"performance", "fight_execution">>,
     odds |-> <<"performance", "fight_execution", "mechanic_success", "odds">>],
    [title |-> "Cooldown Efficiency",
     guard |-> <<"performance", "cooldown_usage">>,
     odds |-> <<"performance", "fight_execution", "cooldown_usage", "odds">>]>>

\* {guard && renderOddsSection(title, odds, description)}: nothing when the
\* guard is undefined; a TypeError when the odds expression reads a field of
\* an undefined object, or when renderOddsSection reads odds[0] of an
\* undefined odds; the section otherwise.
Section(data, s) ==
  IF s.guard \notin data.present THEN "hidden"
  ELSE IF \E k \in 2..Len(s.odds) : SubSeq(s.odds, 1, k) \notin data.present
  THEN "TypeError"
  ELSE "shown"

\* PlayerMetricsDisplay: the six sections in turn; a TypeError in one of
\* them leaves the render.
PM_render ==
  /\ props.data # Null
  /\ LET sections == [i \in 1..Len(Sections) |-> Section(props.data, Sections[i])]
         thrown == \E i \in 1..Len(Sections) : sections[i] = "TypeError"
         shown == \E i \in 1..Len(Sections) : sections[i] = "shown"
         odds == PM_formatOdds(props.data.odds)
     IN rendered' =
          IF thrown
          THEN [by |-> "PlayerMetricsDisplay.sections", value |-> "TypeError",
                over |-> "", under |-> "", sections |-> <<>>]
          ELSE [by |-> "PlayerMetricsDisplay.sections", value |-> "rendered",
                over |-> IF shown THEN odds.over ELSE "",
                under |-> IF shown THEN odds.under ELSE "",
                sections |-> sections]
  /\ UNCHANGED <<pageState, metric, props>>

\* The props MetricsLayout and PlayerMetricsDisplay may be mounted with.
LayoutInputs ==
  [data : {Null} \cup {d \in PayloadInputs : d.odds = <<0, 0>>},
   isLoading : BOOLEAN, error : {"", "Character not found"}]
PlayerInputs == [data : PayloadInputs, isLoading : {FALSE}, error : {""}]
DefaultMetric ==
  [value |-> Frac(0, 1), odds |-> <<0, 0>>,
   report |-> [kills |-> 0, total_fights |-> 0]]

\* A metric display is mounted with some props; the search page is idle.
FormatInit ==
  /\ page = "MetricDisplays"
  /\ searchType = "player"
  /\ characterName = <<>>
  /\ serverName = <<>>
  /\ region = "us"
  /\ version = "SoD"
  /\ localLoading = FALSE
  /\ localError = ""
  /\ loading = FALSE
  /\ isLoading = FALSE
  /\ error = ""
  /\ searchResults = Null
  /\ requests = <<>>
  /\ fetchCount = 0
  /\ submitCount = 0
  /\ uncaught = FALSE
  /\ \/ metric \in MetricInputs /\ props = NoProps
     \/ metric = DefaultMetric /\ props \in LayoutInputs \cup PlayerInputs
  /\ rendered = NotRendered

FormatNext ==
  \/ AD_renderDamageMetric
  \/ PF_renderMetricCard
  \/ DM_renderMetricCard
  \/ PM_renderOddsSection
  \/ ML_renderReport
  \/ ML_render
  \/ PM_render

FormatSpec == FormatInit /\ [][FormatNext]_vars

(***************************************************************************)
(* Specification                                                           *)
(***************************************************************************)

Next ==
  \/ \E t \in SearchTypes : setSearchType(t)
  \/ \E v \in NameInputs : setCharacterName(v)
  \/ \E v \in ServerInputs : setServerName(v)
  \/ \E r \in Regions : setRegion(r)
  \/ \E v \in Versions : setVersion(v)
  \/ handleSearch
  \/ \E i \in 1..Len(requests), o \in Outcomes : handleSearchSettled(i, o)
  \/ SP_handleSearch
  \/ \E i \in 1..Len(requests), o \in Outcomes : SP_handleSearchSettled(i, o)

Spec == Init /\ [][Next]_vars

(***************************************************************************)
(* Properties                                                              *)
(***************************************************************************)

\* Every loading flag of the mounted page is set.
AllLoading == IF page = "Home" THEN isLoading /\ localLoading ELSE loading

\* Every loading flag of the mounted page is clear.
NoneLoading == IF page = "Home" THEN ~isLoading /\ ~localLoading ELSE ~loading

\* The name or the server field is empty.
SomeFieldEmpty == characterName = <<>> \/ serverName = <<>>

\* Some handler step that runs when a pending fetch settles as o.
Settled(o) ==
  \E i \in 1..Len(requests) : handleSearchSettled(i, o) \/ SP_handleSearchSettled(i, o)

\* C1: a valid submit sets every loading flag in the step that issues the
\* fetch, the step that handles the settled fetch clears every loading flag
\* whatever the outcome (success, non-2xx, rejection, thrown error), and no
\* flag is set while no request is pending.
C1_LoadingReleased ==
  /\ [](requests = <<>> => NoneLoading)
  /\ [][/\ fetchCount' # fetchCount =>
             (AllLoading' /\ Len(requests') = Len(requests) + 1)
        /\ Len(requests') < Len(requests) =>
             \A o \in Outcomes : Settled(o) => NoneLoading']_vars

\* C1 witness: a rejected fetch has been handled and the flags are clear.
C1_Witness ==
  /\ page = "Home"
  /\ fetchCount = 1
  /\ requests = <<>>
  /\ error = "Failed to fetch"
  /\ ~isLoading /\ ~localLoading

\* C2: a submit with an empty name or an empty server issues no request
\* and sets the validation message of the form.
C2_NoRequestWhenInvalid ==
  [][/\ (SomeFieldEmpty /\ handleSearch) =>
          /\ requests' = requests
          /\ fetchCount' = fetchCount
          /\ localError' = "Please fill in all required fields"
     /\ (SomeFieldEmpty /\ SP_handleSearch) =>
          /\ requests' = requests
          /\ fetchCount' = fetchCount
          /\ error' = "Please enter both name and server"]_vars

\* C2 witness: the form holds the validation message with an empty field and
\* nothing was fetched.
C2_Witness ==
  /\ page = "Home"
  /\ serverName = <<>> /\ characterName = Thrall
  /\ localError = "Please fill in all required fields"
  /\ fetchCount = 0
  /\ requests = <<>>

\* The detail field of a response body is present.
HasDetail(body) == body.type = "object" /\ body.detail # <<>>

\* C3 as stated: for every non-2xx response the error becomes the detail
\* field of the body when the field is present and 'Failed to fetch data'
\* otherwise, and the result becomes empty.
C3_Original ==
  [][Len(requests') < Len(requests) =>
     \A o \in Outcomes :
       (o.kind = "response" /\ ~o.ok
          /\ \E i \in 1..Len(requests) : handleSearchSettled(i, o)) =>
         /\ error' = (IF HasDetail(o.body) THEN o.body.detail[1]
                      ELSE "Failed to fetch data")
         /\ searchResults' = Null]_vars

\* C3 amended: for every non-2xx response whose body parses as a JSON
\* object, the error becomes the detail field when it is a non-empty
\* string, 'Failed to fetch data' when the field is absent or empty, and
\* the result becomes empty.
C3_DetailOrGeneric ==
  [][Len(requests') < Len(requests) =>
     \A o \in Outcomes :
       (o.kind = "response" /\ ~o.ok /\ o.body.type = "object"
          /\ \E i \in 1..Len(requests) : handleSearchSettled(i, o)) =>
         /\ error' = (IF o.body.detail \in {<<>>, <<"">>}
                      THEN "Failed to fetch data"
                      ELSE o.body.detail[1])
         /\ searchResults' = Null]_vars

\* C3 witness: a 404 with detail 'Character not found' has been handled.
C3_Witness ==
  /\ page = "Home"
  /\ error = "Character not found"
  /\ searchResults = Null
  /\ requests = <<>>
  /\ fetchCount = 2

C5_Original ==
  (page = "Home" /\ requests # <<>> /\ ~SomeFieldEmpty /\ fetchCount < MaxSearches)
    => ENABLED handleSearch

\* C5 amended: searches submitted through the form never overlap, since the
\* submit control is disabled while a request is in flight; no request is
\* cancelled (a request stops being pending only when its response is
\* handled), and a successful response overwrites the result an earlier
\* response stored.
C5_NoOverlapLastWins ==
  /\ [](Len(requests) <= 1)
  /\ [][/\ Len(requests') < Len(requests) => \E o \in Outcomes : Settled(o)
        /\ Len(requests') < Len(requests) => \A o \in Outcomes :
             (searchResults # Null /\ o.kind = "response" /\ o.ok
                /\ o.body \in JsonValues /\ Settled(o)) =>
               searchResults' = o.body]_vars

\* C5 witness: the second search is in flight while the result of the
\* first is still stored.
C5_Witness ==
  /\ page = "Home"
  /\ fetchCount = 2
  /\ Len(requests) = 1
  /\ searchResults = SearchData

\* C6: while a request is in flight the page holds neither an error nor the
\* result of an earlier search (both were cleared when the search began).
C6_ClearedWhenSearchBegins ==
  requests # <<>> => (error = "" /\ searchResults = Null)

\* C7: result data is presented (the data view of MetricsLayout, the
\* 'Results found for' line of Home) only when error is empty and loading
\* is false.
C7_ResultShownOnlyWhenIdleAndClean ==
  (DataViewShown \/ ResultsLineShown) => (error = "" /\ ~isLoading)

\* The lower-cased, percent-encoded form of each input, written out.
ExpectedSegment(s) ==
  CASE s = Thrall -> "thrall"
    [] s = AcDc -> "ac%2Fd%20c"
    [] s = Stormrage -> "stormrage"

\* The request path the interface section prescribes for the form values.
ExpectedPath ==
  IF searchType = "player"
  THEN "/api/v1/player/" \o region \o "/" \o ExpectedSegment(serverName)
         \o "/" \o ExpectedSegment(characterName) \o "?version=" \o version
  ELSE "/api/v1/guild/" \o region \o "/" \o ExpectedSegment(serverName)
         \o "/" \o ExpectedSegment(characterName)

\* C8: every request issued carries the prescribed path, with server and
\* name lower-cased and percent-encoded.
C8_RequestPath ==
  [][fetchCount' # fetchCount =>
       requests'[Len(requests')].url = ExpectedPath]_vars

\* C8 for SearchPage/index.tsx alone: every request that form issues carries
\* the prescribed path.
C8_IndexRequestPath ==
  [][(page = "Home" /\ fetchCount' # fetchCount) =>
       requests'[Len(requests')].url = ExpectedPath]_vars

\* C9: a rejected fetch or a body that is not JSON ends in a non-empty
\* error, an empty result and clear loading flags, and no exception ever
\* leaves the handler.
C9_FailuresCaught ==
  /\ [](~uncaught)
  /\ [][Len(requests') < Len(requests) => \A o \in Outcomes :
          ((o.kind = "rejected" \/ o.body = NotJson) /\ Settled(o)) =>
            /\ error' # ""
            /\ searchResults' = Null
            /\ NoneLoading'
            /\ ~uncaught']_vars

\* C9 witness: a 2xx response whose body is not JSON has been handled.
C9_Witness ==
  /\ page = "Home"
  /\ error = SyntaxError.message
  /\ searchResults = Null
  /\ ~isLoading /\ ~localLoading
  /\ requests = <<>>

\* C10: while a submitted request has not settled every loading flag is
\* set.
C10_LoadingWhileInFlight == requests # <<>> => AllLoading

\* C10 witness: a request is pending, the form was edited meanwhile, and
\* the flags are set.
C10_Witness ==
  /\ page = "Home"
  /\ Len(requests) = 1
  /\ characterName = <<>>
  /\ isLoading /\ localLoading

\* C11: every valid submit issues exactly one fetch and nothing else issues
\* one: the fetches issued and the valid submits are equal in number, and
\* the step that handles a settled fetch, failed or not, issues none.
C11_OneFetchPerSubmit ==
  /\ [](fetchCount = submitCount)
  /\ [][/\ submitCount' # submitCount =>
             /\ submitCount' = submitCount + 1
             /\ fetchCount' = fetchCount + 1
             /\ Len(requests') = Len(requests) + 1
        /\ Len(requests') < Len(requests) =>
             /\ fetchCount' = fetchCount
             /\ Len(requests') = Len(requests) - 1]_vars

\* C11 witness: two submits, two fetches, the second failed and was not
\* retried.
C11_Witness ==
  /\ page = "SearchPage"
  /\ submitCount = 2
  /\ fetchCount = 2
  /\ error = "Failed to fetch"
  /\ requests = <<>>

OddsDisplays == {"AvoidableDamageDisplay", "PerformanceDisplay",
                 "DeathMetricsDisplay", "PlayerMetricsDisplay"}

\* The claim C12 as stated: a figure that is zero or positive is rendered
\* with a "+" before it and a negative figure as it is, in every display.
C12_Original ==
  rendered.by \in OddsDisplays =>
    /\ metric.odds[1] >= 0 => rendered.over = "+" \o ToString(metric.odds[1])
    /\ metric.odds[1] < 0 => rendered.over = ToString(metric.odds[1])
    /\ metric.odds[2] >= 0 => rendered.under = "+" \o ToString(metric.odds[2])
    /\ metric.odds[2] < 0 => rendered.under = ToString(metric.odds[2])

\* C12: in every metric display, each figure of an odds pair is rendered on
\* its own: a strictly positive figure with a "+" before it, zero as "0"
\* and a negative figure as it is, with its sign.
C12_PlusOnlyWhenPositive ==
  rendered.by \in OddsDisplays =>
    /\ metric.odds[1] > 0 => rendered.over = "+" \o ToString(metric.odds[1])
    /\ metric.odds[1] = 0 => rendered.over = "0"
    /\ metric.odds[1] < 0 => rendered.over = ToString(metric.odds[1])
    /\ metric.odds[2] > 0 => rendered.under = "+" \o ToString(metric.odds[2])
    /\ metric.odds[2] = 0 => rendered.under = "0"
    /\ metric.odds[2] < 0 => rendered.under = ToString(metric.odds[2])

C12_Witness ==
  /\ rendered.by = "AvoidableDamageDisplay"
  /\ metric.odds = <<0, -2>>
  /\ rendered.over = "0"
  /\ rendered.under = "-2"

\* t tenths is a nearest one-decimal value of x / unit.
NearestTenth(t, x, unit) ==
  2 * Abs(t * x.d * unit - 10 * x.n) <= x.d * unit

\* C13: the magnitude formatter renders v / 1e6 rounded to one decimal and
\* "M" when v >= 1,000,000, v / 1e3 rounded to one decimal and "K" when
\* 1,000 <= v < 1,000,000, and the nearest integer when v < 1,000.
C13_MagnitudeSuffix ==
  rendered.by = "AvoidableDamageDisplay" =>
    LET v == metric.value
        m == (10 * v.n) \div (v.d * 1000000)
        k == (10 * v.n) \div (v.d * 1000)
        i == v.n \div v.d
    IN /\ v.n >= 1000000 * v.d =>
            \E t \in {m, m + 1} :
              /\ NearestTenth(t, v, 1000000)
              /\ rendered.value = ToString(t \div 10) \o "." \o ToString(t % 10)
                                    \o "M"
       /\ (v.n >= 1000 * v.d /\ v.n < 1000000 * v.d) =>
            \E t \in {k, k + 1} :
              /\ NearestTenth(t, v, 1000)
              /\ rendered.value = ToString(t \div 10) \o "." \o ToString(t % 10)
                                    \o "K"
       /\ v.n < 1000 * v.d =>
            \E t \in {i, i + 1} :
              /\ 2 * Abs(t * v.d - v.n) <= v.d
              /\ rendered.value = ToString(t)

C13_Witness ==
  /\ rendered.by = "AvoidableDamageDisplay"
  /\ metric.value = Frac(1000, 1)
  /\ rendered.value = "1.0K"

\* A percentage between 0% and 100% with one decimal.
Percentages ==
  {ToString(t \div 10) \o "." \o ToString(t % 10) \o "%" : t \in 0..1000}

\* C16: every numeric formatter is total: the percentage displays, the
\* success rate kills / total_fights of a report among them, show a
\* percentage for 0 and 1, nothing is divided by zero, and the magnitude
\* formatter shows a number for 0 and for values of 1e6 and more.
C16_FormattersTotal ==
  /\ rendered.by = "PerformanceDisplay" =>
       /\ metric.value = Frac(0, 1) => rendered.value = "0.0%"
       /\ metric.value = Frac(1, 1) => rendered.value = "100.0%"
  /\ rendered.by = "DeathMetricsDisplay" =>
       /\ metric.value = Frac(0, 1) => rendered.value = "0.0%"
       /\ metric.value = Frac(1, 1) => rendered.value \in {"100.0%", "1.00"}
  /\ rendered.by = "MetricsLayout" => rendered.value \in Percentages
  /\ rendered.by = "AvoidableDamageDisplay" =>
       /\ metric.value = Frac(0, 1) => rendered.value = "0"
       /\ metric.value = Frac(1000000, 1) => rendered.value = "1.0M"
       /\ metric.value = Frac(1250000, 1) => rendered.value \in {"1.2M", "1.3M"}

\* C14: a submit that fails the validation leaves the loading flags, the
\* error of the page and the result as they were; only the message of the
\* form changes.
C14_InvalidSubmitLeavesRequestState ==
  [][(SomeFieldEmpty /\ (handleSearch \/ SP_handleSearch)) =>
       UNCHANGED <<isLoading, loading, localLoading, error, searchResults>>]_vars

\* C14 for SearchPage/index.tsx alone: an invalid submit of that form
\* changes nothing but its localError.
C14_IndexInvalidSubmit ==
  [][(SomeFieldEmpty /\ handleSearch) =>
       /\ localError' = "Please fill in all required fields"
       /\ UNCHANGED <<isLoading, loading, localLoading, error, searchResults,
                      requests>>]_vars

\* The path segments a request may carry for the names of the form.
PathSegments ==
  {Text(toLowerCase(s)) : s \in (NameInputs \cup ServerInputs) \ {<<>>}}
    \cup {encodeURIComponent(toLowerCase(s)) :
            s \in (NameInputs \cup ServerInputs) \ {<<>>}}

\* C15: every request issued carries a region among us, eu, kr, tw; a
\* player request carries the version of the form, one of Retail, Cata,
\* ClassicFresh, SoD, Classic; a guild request carries no version, whatever
\* version the form holds.
C15_RegionAndVersion ==
  /\ [](/\ region \in {"us", "eu", "kr", "tw"}
        /\ version \in {"Retail", "Cata", "ClassicFresh", "SoD", "Classic"})
  /\ [][fetchCount' # fetchCount =>
          LET url == requests'[Len(requests')].url
          IN \E s \in PathSegments, n \in PathSegments :
               IF searchType = "player"
               THEN url = "/api/v1/player/" \o region \o "/" \o s \o "/" \o n
                            \o "?version=" \o version
               ELSE url = "/api/v1/guild/" \o region \o "/" \o s \o "/" \o n]_vars

C15_Witness ==
  /\ page = "Home"
  /\ searchType = "guild"
  /\ version = "Cata"
  /\ requests = <<[url |-> "/api/v1/guild/kr/stormrage/thrall"]>>

\* The fetch settled with a 2xx response whose body parses.
IsSuccess(o) == o.kind = "response" /\ o.ok /\ o.body \in JsonValues

\* C17: a search goes Idle -> Submitting -> Success or Failed -> Idle.  The
\* form is idle with nothing pending or submitting with one request pending;
\* a valid submit moves to submitting; a request only leaves by settling,
\* and then either the result is the response body and no error is reported,
\* or an error is reported and the result is null; the settling step issues
\* no fetch and leaves the form ready for the next submit.
C17_SearchLifecycle ==
  /\ [](\/ requests = <<>> /\ NoneLoading
        \/ Len(requests) = 1 /\ AllLoading)
  /\ [][/\ submitCount' # submitCount =>
             /\ requests = <<>> /\ NoneLoading
             /\ Len(requests') = 1 /\ AllLoading'
        /\ Len(requests') < Len(requests) =>
             /\ \E o \in Outcomes : Settled(o)
             /\ \A o \in Outcomes : Settled(o) =>
                  IF IsSuccess(o)
                  THEN searchResults' = o.body /\ error' = ""
                  ELSE searchResults' = Null /\ error' # ""
             /\ fetchCount' = fetchCount
             /\ requests' = <<>> /\ NoneLoading'
             /\ ~SubmitDisabled' /\ ~SP_SubmitDisabled']_vars

C17_Witness ==
  /\ page = "Home"
  /\ submitCount = 2
  /\ requests = <<>>
  /\ error = "Unknown error occurred"
  /\ searchResults = Null
  /\ ~localLoading

\* C18: the request of a submit is fixed by the form values at that submit.
\* The url issued is the one built from the form as it is then; an edit of
\* the form leaves the pending request, the error and the result alone; a
\* pending request keeps its url until it settles, and what it then reports
\* is the outcome of that fetch, whatever the form holds by then.
C18_SnapshotAtSubmit ==
  [][/\ fetchCount' # fetchCount =>
          /\ form' = form
          /\ requests'[Len(requests')].url =
               IF page = "Home" THEN RequestUrl ELSE SP_RequestUrl
     /\ form' # form => UNCHANGED <<requests, error, searchResults>>
     /\ Len(requests') = Len(requests) => requests' = requests
     /\ Len(requests') < Len(requests) =>
          /\ form' = form
          /\ \E o \in Outcomes :
               /\ Settled(o)
               /\ searchResults' = IF IsSuccess(o) THEN o.body ELSE Null]_vars

C18_Witness ==
  /\ page = "Home"
  /\ requests = <<[url |-> "/api/v1/player/us/stormrage/thrall?version=SoD"]>>
  /\ characterName = AcDc
  /\ region = "eu"
  /\ searchType = "guild"

\* C19: the stored result is always empty or one whole body.  It changes
\* only to empty, or, when a fetch settles with a 2xx response, to the body
\* of that response; a fetch that settles otherwise leaves it empty.
C19_ResultIsOneSuccessBody ==
  /\ [](searchResults \in JsonValues)
  /\ [][/\ searchResults' # searchResults =>
             \/ searchResults' = Null
             \/ /\ Len(requests') < Len(requests)
                /\ \E o \in Outcomes :
                     IsSuccess(o) /\ Settled(o) /\ searchResults' = o.body
        /\ Len(requests') < Len(requests) =>
             \A o \in Outcomes :
               (Settled(o) /\ ~(o.kind = "response" /\ o.ok)) =>
                 searchResults' = Null]_vars

C19_Witness ==
  /\ page = "Home"
  /\ searchResults = DetailBody
  /\ error = ""
  /\ fetchCount = 2
  /\ requests = <<>>

\* C20: the loading flags, the error and the result are written by the
\* submit handler alone: no step that edits the form changes them, and any
\* step that changes them is a submit or the settling of its request.
C20_OnlySubmitWritesRequestState ==
  [][/\ form' # form =>
          UNCHANGED <<isLoading, loading, localLoading, error, searchResults>>
     /\ <<isLoading, loading, error, searchResults>>'
          # <<isLoading, loading, error, searchResults>> =>
          \/ handleSearch
          \/ SP_handleSearch
          \/ \E o \in Outcomes : Settled(o)]_vars

C20_Witness ==
  /\ page = "Home"
  /\ searchResults = SearchData
  /\ error = ""
  /\ characterName = <<>>
  /\ searchType = "guild"
  /\ region = "tw"
  /\ requests = <<>>

\* C21: while the loading flag of the form is set its submit button is
\* disabled, so no submit can start until the pending request has settled,
\* and at most one request is in flight at any time.
C21_OneRequestInFlight ==
  /\ [](/\ Len(requests) <= 1
        /\ localLoading => (SubmitDisabled /\ ~ENABLED handleSearch)
        /\ loading => (SP_SubmitDisabled /\ ~ENABLED SP_handleSearch)
        /\ requests # <<>> => ~ENABLED (handleSearch \/ SP_handleSearch))
  /\ [][submitCount' # submitCount => requests = <<>>]_vars

C21_Witness ==
  /\ page = "SearchPage"
  /\ loading
  /\ Len(requests) = 1
  /\ fetchCount = 1
  /\ characterName = Thrall /\ serverName = Stormrage

\* C22: whenever no request is in flight the page does not hold both an
\* error and a result; the two are written together when a request
\* settles: a result and no error by a 2xx response whose body parses, an
\* error and no result by anything else.
C22_ErrorAndResultFromOneRequest ==
  /\ [](requests = <<>> => ~(error # "" /\ searchResults # Null))
  /\ [][Len(requests') < Len(requests) =>
          \A o \in Outcomes : Settled(o) =>
            /\ error' # "" <=> ~IsSuccess(o)
            /\ searchResults' # Null => (IsSuccess(o) /\ error' = "")]_vars

C22_Witness ==
  /\ page = "Home"
  /\ requests = <<>>
  /\ fetchCount = 2
  /\ error = "Failed to fetch data"
  /\ searchResults = Null

\* C25: the validation message of the form changes only in handleSearch: an
\* invalid submit sets it, a valid submit clears it; an edit of a field, a
\* mode toggle and a settling request leave it as it is.
C25_LocalErrorLifecycle ==
  [][/\ form' # form => localError' = localError
     /\ Len(requests') < Len(requests) => localError' = localError
     /\ (page = "Home" /\ submitCount' # submitCount) => localError' = ""
     /\ (SomeFieldEmpty /\ handleSearch) =>
          localError' = "Please fill in all required fields"
     /\ localError' # localError =>
          /\ handleSearch
          /\ localError' = "" <=> submitCount' # submitCount]_vars

C25_Witness ==
  /\ page = "Home"
  /\ localError = "Please fill in all required fields"
  /\ characterName = Thrall /\ serverName = Stormrage
  /\ searchType = "guild"
  /\ fetchCount = 1
  /\ requests = <<>>

\* C23: for every combination of isLoading, error and data, MetricsLayout
\* returns one view: the spinner if isLoading, otherwise the error display
\* if the error is not empty, otherwise nothing if there is no data,
\* otherwise the data view.
C23_ViewPriority ==
  rendered.by = "MetricsLayout.view" =>
    /\ rendered.value \in {"spinner", "error", "nothing", "data"}
    /\ rendered.value = "spinner" <=> props.isLoading
    /\ rendered.value = "error" <=> (~props.isLoading /\ props.error # "")
    /\ rendered.value = "nothing" <=>
         (~props.isLoading /\ props.error = "" /\ props.data = Null)
    /\ rendered.value = "data" <=>
         (~props.isLoading /\ props.error = "" /\ props.data # Null)

C23_Witness ==
  /\ rendered.by = "MetricsLayout.view"
  /\ props.isLoading
  /\ props.error = "Character not found"
  /\ props.data = TypedPayload(<<0, 0>>)
  /\ rendered.value = "spinner"

\* C24: for every metrics payload, PlayerMetricsDisplay renders without
\* reading a field of an absent object and without formatting an absent
\* odds pair: a section whose guard holds finds the odds pair it reads.
C24_SectionsReadWhatTheyTest ==
  rendered.by = "PlayerMetricsDisplay.sections" =>
    /\ rendered.value # "TypeError"
    /\ \A i \in 1..Len(Sections) :
         Sections[i].guard \in props.data.present =>
           /\ rendered.sections[i] = "shown"
           /\ Sections[i].odds \in props.data.present

====
